---------------------------- MODULE Spec2Model ----------------------------
(***************************************************************************)
(* Lebensmittel-Manager: the barcode acquisition subsystem and the         *)
(* inventory of the App.                                                   *)
(*                                                                         *)
(*  - isValidEan, the EAN-8 / EAN-13 checksum validator, in its copies     *)
(*    (BarcodeScannerComponentNew.tsx, BarcodeScannerComponent.tsx and the *)
(*    older BarcodeScannerComponent of unnamed/part_000);                  *)
(*  - the scanner component (one React effect owning an html5-qrcode       *)
(*    instance) together with its caller, the App component, whose         *)
(*    handleScanSuccess closes the scanner and starts the product lookup.  *)
(*  - the App's inventory (unnamed/part_001): authentication, the snapshot *)
(*    listener, the sorted food list and the handlers that write to the    *)
(*    collection.                                                          *)
(*                                                                         *)
(* Strings are sequences of one-character strings, so that the regular     *)
(* expression test, split(''), Number, toLowerCase and includes are        *)
(* computed character by character as the JavaScript does.                 *)
(***************************************************************************)
EXTENDS Integers, Sequences, FiniteSets, TLC

VARIABLES
    \* ---- validator harness (SpecEan) ----
    eanText,        \* the string handed to isValidEan
    eanEdits,       \* how many characters of the base string were replaced
    eanCopy,        \* which copy of isValidEan is called: "New" or "Plain"
    eanDone,        \* whether isValidEan has returned for eanText
    eanResult,      \* the boolean the call returned (FALSE before the call)
    eanPrev,        \* the previous call, <<[text |-> ..., result |-> ...]>>, or <<>>
    \* ---- scanner component and its caller (Spec) ----
    variant,        \* which scanner integration is built in
    hasFailureCb,   \* whether the caller passes the optional onScanFailure prop
    sessionLimit,   \* how many scan sessions (effect runs) the behaviour may hold
    ui,             \* the App state of the last committed render
    st,             \* the App state with the queued setState updates applied
    mounted,        \* whether the scanner component is mounted
    cur,            \* number of scan sessions (effect runs) started so far
    sess,           \* per session: the library instance and what it has done
    lookups,        \* product lookups in flight, oldest first
    stopThrew,      \* a stop() call threw into the effect cleanup
    forwarded,      \* the per-frame error messages passed to onScanFailure
    lastEvt,        \* what the component swallowed in the last step, if anything:
                    \* kind "invalidCandidate" (text: the decoded text),
                    \* "errorSwallowed" (text: the message), "stopRejected", or "none"
    \* ---- the inventory of the App (SpecApp) ----
    isAuthReady,    \* useState: onAuthStateChanged has reported once
    userId,         \* useState: the signed-in user's uid, or NoUser for null
    foods,          \* useState: the displayed food list
    loading,        \* useState: the shared loading flag
    authUser,       \* the user Firebase Auth holds
    authPending,    \* an auth state that onAuthStateChanged has not yet reported
    effDeps,        \* <<isAuthReady, userId>> of the last run of the snapshot effect
    listening,      \* the onSnapshot listener is subscribed
    snapDue,        \* the listener has a snapshot to deliver
    store,          \* the documents of the collection, in document order
    nextId,         \* the id of the next document that addDoc creates
    pendingLogin,   \* handleLogin: "none", "signingIn" or "settled"
    pendingWrites,  \* writes of this client whose await has not returned
    ledger          \* quantities submitted to and deleted from the collection

eanVars == <<eanText, eanEdits, eanCopy, eanDone, eanResult, eanPrev>>

scanVars == <<variant, hasFailureCb, sessionLimit, ui, st, mounted, cur, sess, lookups,
              stopThrew, forwarded, lastEvt>>

appVars == <<isAuthReady, userId, foods, loading, authUser, authPending, effDeps,
             listening, snapDue, store, nextId, pendingLogin, pendingWrites, ledger>>

vars == <<eanVars, scanVars, appVars>>

(***************************************************************************)
(* Strings                                                                 *)
(***************************************************************************)
DigitChars == <<"0", "1", "2", "3", "4", "5", "6", "7", "8", "9">>

\* what the decoder may deliver besides ASCII digits: a letter, a blank, a
\* sign, a line break and a digit of another script (\d is ASCII only)
OtherChars == {"A", " ", "-", "\n", "x"}

\* /\d/ on one character
IsDigitChar(c) == \E n \in 1..10 : DigitChars[n] = c

\* /^\d+$/.test(barcode): one or more characters, every one an ASCII digit
\* ($ without the m flag matches at the very end only)
MatchesDigitsOnly(barcode) ==
    /\ Len(barcode) >= 1
    /\ \A i \in 1..Len(barcode) : IsDigitChar(barcode[i])

\* Number(c) for a one-character digit string
Number(c) == (CHOOSE n \in 1..10 : DigitChars[n] = c) - 1

\* barcode.split('').map(Number)
SplitDigits(barcode) == [i \in 1..Len(barcode) |-> Number(barcode[i])]

(***************************************************************************)
(* isValidEan                                                              *)
(***************************************************************************)
\* the EAN-8 weights used for an EAN-13 code
Weigh13Swapped(digit, index) == IF index % 2 = 0 THEN digit * 3 ELSE digit

\* the EAN-8 callback that forgets the weight 3
Weigh8Unweighted(digit, index) == digit

\* the reduce callbacks; index is the 0-based array index
Weigh13New(digit, index) == IF index % 2 = 0 THEN digit * 1 ELSE digit * 3
Weigh8New(digit, index)  == IF index % 2 = 0 THEN digit * 3 ELSE digit * 1
Weigh13(digit, index)    == IF index % 2 = 0 THEN digit ELSE digit * 3
Weigh8(digit, index)     == IF index % 2 = 0 THEN digit * 3 ELSE digit

\* digits.reduce((acc, digit, index) => acc + f(digit, index), 0), left to right
RECURSIVE Reduce13New(_, _)
Reduce13New(digits, n) ==
    IF n = 0 THEN 0 ELSE Reduce13New(digits, n - 1) + Weigh13New(digits[n], n - 1)

RECURSIVE Reduce8New(_, _)
Reduce8New(digits, n) ==
    IF n = 0 THEN 0 ELSE Reduce8New(digits, n - 1) + Weigh8New(digits[n], n - 1)

RECURSIVE Reduce13(_, _)
Reduce13(digits, n) ==
    IF n = 0 THEN 0 ELSE Reduce13(digits, n - 1) + Weigh13(digits[n], n - 1)

RECURSIVE Reduce8(_, _)
Reduce8(digits, n) ==
    IF n = 0 THEN 0 ELSE Reduce8(digits, n - 1) + Weigh8(digits[n], n - 1)

\* the length test left out
LengthOkAny(len) == TRUE

\* if (len !== 8 && len !== 13) return false
LengthOk(len) == ~(len # 8 /\ len # 13)

\* the outer % 10 left out: 10 instead of 0
CheckDigitNoWrap(sum) == 10 - (sum % 10)

\* const calculatedCheckDigit = (10 - (sum % 10)) % 10
CalculatedCheckDigit(sum) == (10 - (sum % 10)) % 10

\* BarcodeScannerComponentNew.tsx
isValidEanNew(barcode) ==
    IF ~MatchesDigitsOnly(barcode) THEN FALSE
    ELSE LET len == Len(barcode) IN
         IF ~LengthOk(len) THEN FALSE
         ELSE LET all        == SplitDigits(barcode)
                  checkDigit == all[len]                 \* digits.pop()
                  digits     == SubSeq(all, 1, len - 1)
                  sum        == IF len = 13
                                THEN Reduce13New(digits, Len(digits))
                                ELSE Reduce8New(digits, Len(digits))
              IN  CalculatedCheckDigit(sum) = checkDigit

\* BarcodeScannerComponent.tsx and unnamed/part_000 (the same text)
isValidEan(barcode) ==
    IF ~MatchesDigitsOnly(barcode) THEN FALSE
    ELSE LET len == Len(barcode) IN
         IF ~LengthOk(len) THEN FALSE
         ELSE LET all        == SplitDigits(barcode)
                  checkDigit == all[len]
                  digits     == SubSeq(all, 1, len - 1)
                  sum        == IF len = 13
                                THEN Reduce13(digits, Len(digits))
                                ELSE Reduce8(digits, Len(digits))
              IN  CalculatedCheckDigit(sum) = checkDigit

(***************************************************************************)
(* Sample codes                                                            *)
(***************************************************************************)
\* true EAN-13 and EAN-8 codes; one of each has the check digit 0
Ean13Sample  == <<"4","0","0","6","3","8","1","3","3","3","9","3","1">>
Ean13SampleB == <<"5","9","0","1","2","3","4","1","2","3","4","5","7">>
Ean13SampleZ == <<"4","0","0","6","3","8","1","3","3","3","9","0","0">>
Ean8Sample   == <<"7","3","5","1","3","5","3","7">>
Ean8SampleB  == <<"9","6","3","8","5","0","7","4">>
Ean8SampleZ  == <<"1","2","3","4","5","6","7","0">>

Samples == {Ean13Sample, Ean13SampleB, Ean13SampleZ, Ean8Sample, Ean8SampleB, Ean8SampleZ}

\* misreads: last digit changed, two digits lost, a letter read for a digit
Ean13WrongCheck == <<"4","0","0","6","3","8","1","3","3","3","9","3","2">>
Ean13Short      == <<"4","0","0","6","3","8","1","3","3","3","9">>
Ean13Letter     == <<"4","0","0","6","A","8","1","3","3","3","9","3","1">>

SecondInputs == {Ean13Sample, Ean13WrongCheck, Ean13Short, Ean13Letter}

(***************************************************************************)
(* Decoder error messages: toLowerCase and includes                        *)
(***************************************************************************)
UpperLetters == <<"C", "D", "E", "F", "N", "O", "T", "U">>
LowerLetters == <<"c", "d", "e", "f", "n", "o", "t", "u">>

\* String.prototype.toLowerCase on one character
ToLowerChar(c) ==
    IF \E k \in 1..Len(UpperLetters) : UpperLetters[k] = c
    THEN LowerLetters[CHOOSE k \in 1..Len(UpperLetters) : UpperLetters[k] = c]
    ELSE c

toLowerCase(str) == [i \in 1..Len(str) |-> ToLowerChar(str[i])]

\* String.prototype.includes
includes(str, sub) ==
    \E i \in 0..(Len(str) - Len(sub)) : SubSeq(str, i + 1, i + Len(sub)) = sub

NotFoundMarker == <<"n","o","t"," ","f","o","u","n","d">>

\* per-frame errors the decoder reports
MsgLower == <<"c","o","d","e"," ","n","o","t"," ","f","o","u","n","d">>
MsgUpper == <<"C","O","D","E"," ","N","O","T"," ","F","O","U","N","D">>
MsgOther == <<"n","o"," ","c","o","d","e">>

ErrorMessages == {MsgLower, MsgUpper, MsgOther}

\* a wrapper that returns for every message
IgnoresEveryError(error) == TRUE
\* onScanFailureWrapper's test, BarcodeScannerComponentNew.tsx
IgnoresErrorNew(error) == includes(toLowerCase(error), NotFoundMarker)

\* onScanFailureWrapper's test, BarcodeScannerComponent.tsx and unnamed/part_000
IgnoresError(error) == includes(error, NotFoundMarker)

(***************************************************************************)
(* The scanner component and its caller                                    *)
(*                                                                         *)
(* variant: "New"    BarcodeScannerComponentNew.tsx (Html5Qrcode, propsRef)*)
(*          "Ref"    BarcodeScannerComponent.tsx (Html5QrcodeScanner,      *)
(*                   propsRef)                                             *)
(*          "Deps"   unnamed/part_000 (Html5QrcodeScanner, the effect      *)
(*                   depends on the callbacks)                             *)
(*          "Legacy" App.tsx with react-qr-barcode-scanner's onUpdate      *)
(* The html5-qrcode variants are used by the App of unnamed/part_001.      *)
(*                                                                         *)
(* A handler is a closure of the render that created it: it reads the      *)
(* state of that render (a snapshot) and queues its updates; React commits *)
(* the queue in a later task, except for a click, which is flushed before  *)
(* the click returns.                                                      *)
(***************************************************************************)
MaxSessions == 2
MaxSessionsShort == 1
MaxFrames == 2

Variants == {"New", "Ref", "Deps", "Legacy"}

\* what the decoder may hand to the success callback
Texts == {Ean13Sample, Ean8Sample, Ean13WrongCheck, <<>>}

NoEvt == [kind |-> "none", text |-> <<>>]

NoSession ==
    [lib |-> "none", cb |-> [open |-> FALSE, fetching |-> FALSE, loading |-> FALSE, barcode |-> <<>>],
     cleaned |-> FALSE, succ |-> 0, lateSucc |-> FALSE, lateErr |-> FALSE,
     fatal |-> 0, fatalMsg |-> "", errs |-> 0, stops |-> 0]

\* useState initial values (isScannerOpen, isFetchingBarcode, newFood.barcode);
\* loading is taken after the first snapshot has arrived
InitialAppState == [open |-> FALSE, fetching |-> FALSE, loading |-> FALSE, barcode |-> <<>>]

ScanIdle ==
    /\ ui = InitialAppState
    /\ st = InitialAppState
    /\ mounted = FALSE
    /\ cur = 0
    /\ sess = [s \in 1..(MaxSessions + 1) |-> NoSession]
    /\ lookups = <<>>
    /\ stopThrew = FALSE
    /\ forwarded = {}
    /\ lastEvt = NoEvt

\* a wrapper that forwards every decoded text
PassesEverything(v, decodedText) == TRUE

\* the decoded text passes the component's validation
PassesValidation(v, decodedText) ==
    CASE v = "New"    -> isValidEanNew(decodedText)
      [] v = "Ref"    -> isValidEan(decodedText)
      [] v = "Deps"   -> isValidEan(decodedText)
      [] v = "Legacy" -> TRUE      \* handleScanResult tests only `result`

\* the wrapper drops the per-frame error
SuppressesError(v, error) ==
    CASE v = "New"    -> IgnoresErrorNew(error)
      [] v = "Ref"    -> IgnoresError(error)
      [] v = "Deps"   -> IgnoresError(error)
      [] v = "Legacy" -> TRUE      \* handleScanResult ignores err

\* the effect body: a new library instance whose callbacks see the props of
\* this render; start() / render() asks for the camera
NewSession(s) ==
    [NoSession EXCEPT !.lib = IF variant = "Legacy" THEN "scanning" ELSE "starting",
                      !.cb = s]

\* the cleanup without its isScanning test
CleanupStopsAlways(lib) == TRUE
\* if (html5QrCode.isScanning): true once start() has resolved, until stop() has
CleanupStops(lib) == lib = "scanning"

\* Html5Qrcode.stop() throws unless the instance is scanning
StopThrows(lib) == CleanupStops(lib) /\ lib # "scanning"

\* the effect cleanup
CleanedUp(x) ==
    IF variant = "Legacy"
    THEN [x EXCEPT !.cleaned = TRUE, !.lib = "stopped"]
    ELSE IF CleanupStops(x.lib)
         THEN [x EXCEPT !.cleaned = TRUE,
                        !.stops = @ + 1,
                        !.lib = IF x.lib = "scanning" THEN "stopping" ELSE @]
         ELSE [x EXCEPT !.cleaned = TRUE]

\* a commit that runs the scanner effect anew needs a free session slot
CanCommit(s) ==
    ((~mounted /\ s.open) \/ (mounted /\ s.open /\ variant = "Deps")) => cur < sessionLimit

\* React commits the App state s: the scanner modal is rendered iff s.open
Commit(s) ==
    /\ ui' = s
    /\ mounted' = s.open
    /\ IF ~mounted /\ s.open
       THEN \* mount: the effect runs
            /\ cur' = cur + 1
            /\ sess' = [sess EXCEPT ![cur + 1] = NewSession(s)]
            /\ stopThrew' = stopThrew
       ELSE IF mounted /\ ~s.open
       THEN \* unmount: the cleanup runs
            /\ cur' = cur
            /\ sess' = [sess EXCEPT ![cur] = CleanedUp(@)]
            /\ stopThrew' = (stopThrew \/ (variant # "Legacy" /\ StopThrows(sess[cur].lib)))
       ELSE IF mounted /\ s.open /\ variant = "Deps"
       THEN \* the callbacks are new functions: cleanup, then the effect again
            /\ cur' = cur + 1
            /\ sess' = [sess EXCEPT ![cur] = CleanedUp(@), ![cur + 1] = NewSession(s)]
            /\ stopThrew' = (stopThrew \/ StopThrows(sess[cur].lib))
       ELSE IF mounted /\ s.open
       THEN \* propsRef.current = props
            /\ cur' = cur
            /\ sess' = [sess EXCEPT ![cur].cb = s]
            /\ stopThrew' = stopThrew
       ELSE /\ cur' = cur
            /\ sess' = sess
            /\ stopThrew' = stopThrew

\* onClick={() => setIsScannerOpen(true)}, disabled while loading or fetching
OpenClick ==
    /\ ~ui.open
    /\ ~ui.loading
    /\ variant # "Legacy" => ~ui.fetching
    /\ CanCommit([st EXCEPT !.open = TRUE])
    /\ st' = [st EXCEPT !.open = TRUE]
    /\ Commit([st EXCEPT !.open = TRUE])
    /\ lastEvt' = NoEvt
    /\ UNCHANGED <<variant, hasFailureCb, sessionLimit, lookups, forwarded>>
    /\ UNCHANGED <<eanVars, appVars>>

\* onClick={() => setIsScannerOpen(false)} of the modal's close button
CloseClick ==
    /\ ui.open
    /\ st' = [st EXCEPT !.open = FALSE]
    /\ Commit([st EXCEPT !.open = FALSE])
    /\ lastEvt' = NoEvt
    /\ UNCHANGED <<variant, hasFailureCb, sessionLimit, lookups, forwarded>>
    /\ UNCHANGED <<eanVars, appVars>>

\* React commits the queued updates (or re-renders App for another state change)
Render ==
    /\ CanCommit(st)
    /\ Commit(st)
    /\ lastEvt' = NoEvt
    /\ UNCHANGED <<st, variant, hasFailureCb, sessionLimit, lookups, forwarded>>
    /\ UNCHANGED <<eanVars, appVars>>

\* const barcode = barcodeToFetch || newFood.barcode
FetchTarget(c, barcodeToFetch) ==
    IF barcodeToFetch # <<>> THEN barcodeToFetch ELSE c.barcode

\* if (loading || isFetchingBarcode) return;  (App.tsx has no such line)
FetchGuardPasses(v, c) ==
    IF v = "Legacy" THEN TRUE ELSE ~(c.loading \/ c.fetching)

\* handleFetchBarcodeData goes on to fetch(...)
StartsLookup(v, c, barcodeToFetch) ==
    FetchGuardPasses(v, c) /\ FetchTarget(c, barcodeToFetch) # <<>>

\* setIsFetchingBarcode(true); App.tsx: setLoading(true)
AfterFetchStart(v, s) ==
    IF v = "Legacy" THEN [s EXCEPT !.loading = TRUE] ELSE [s EXCEPT !.fetching = TRUE]

\* setIsFetchingBarcode(false) / setLoading(false) on every path out of the fetch
AfterFetchEnd(v, s) ==
    IF v = "Legacy" THEN [s EXCEPT !.loading = FALSE] ELSE [s EXCEPT !.fetching = FALSE]

\* if (decodedText && isScannerOpen); App.tsx: if (result && isScannerOpen),
\* where result is the decoder's result object
AcceptsScan(v, c, decodedText) ==
    IF v = "Legacy" THEN c.open ELSE decodedText # <<>> /\ c.open

\* the decoder's callbacks run while the camera runs, and a decode that was in
\* flight when stop() was called still completes
Delivers(lib) == lib \in {"scanning", "stopping"}

\* caller callbacks run so far (a frame that is dropped changes nothing)
RECURSIVE CallbacksUpTo(_)
CallbacksUpTo(n) ==
    IF n = 0 THEN 0 ELSE CallbacksUpTo(n - 1) + sess[n].succ + sess[n].errs

Delivered == CallbacksUpTo(cur)

\* handleScanSuccess / handleScanResult run by session s's callback
CallerOnSuccess(s, decodedText) ==
    LET c    == sess[s].cb
        acc  == AcceptsScan(variant, c, decodedText)
        look == acc /\ StartsLookup(variant, c, decodedText)
        s1   == [st EXCEPT !.open = FALSE, !.barcode = decodedText]
    IN  /\ sess' = [sess EXCEPT ![s].succ = @ + 1,
                                 ![s].lateSucc = @ \/ sess[s].cleaned]
        /\ st' = IF look THEN AfterFetchStart(variant, s1) ELSE IF acc THEN s1 ELSE st
        /\ lookups' = IF look THEN Append(lookups, FetchTarget(c, decodedText)) ELSE lookups

\* onScanSuccessWrapper(decodedText, decodedResult), called by the decoder
DecodeSuccess ==
    \E s \in 1..cur, decodedText \in Texts :
        /\ Delivered < MaxFrames
        /\ Delivers(sess[s].lib)
        /\ IF PassesValidation(variant, decodedText)
           THEN CallerOnSuccess(s, decodedText) /\ lastEvt' = NoEvt
           ELSE \* console.log only
                /\ lastEvt' = [kind |-> "invalidCandidate", text |-> decodedText]
                /\ UNCHANGED <<sess, st, lookups>>
        /\ UNCHANGED <<variant, hasFailureCb, sessionLimit, ui, mounted, cur, stopThrew, forwarded>>
        /\ UNCHANGED <<eanVars, appVars>>

\* onScanFailureWrapper(error), called by the decoder for a frame without a code
DecodeFailure ==
    \E s \in 1..cur, error \in ErrorMessages :
        /\ Delivered < MaxFrames
        /\ Delivers(sess[s].lib)
        /\ IF ~SuppressesError(variant, error) /\ hasFailureCb
           THEN /\ sess' = [sess EXCEPT ![s].errs = @ + 1,
                                        ![s].lateErr = @ \/ sess[s].cleaned]
                /\ forwarded' = forwarded \cup {error}
                /\ lastEvt' = NoEvt
           ELSE \* return; or onScanFailure?.() without a callback
                /\ lastEvt' = [kind |-> "errorSwallowed", text |-> error]
                /\ UNCHANGED <<sess, forwarded>>
        /\ UNCHANGED <<variant, hasFailureCb, sessionLimit, ui, st, mounted, cur, lookups, stopThrew>>
        /\ UNCHANGED <<eanVars, appVars>>

\* the camera is granted: start() resolves
StartGranted ==
    \E s \in 1..cur :
        /\ sess[s].lib = "starting"
        /\ sess' = [sess EXCEPT ![s].lib = "scanning"]
        /\ lastEvt' = NoEvt
        /\ UNCHANGED <<variant, hasFailureCb, sessionLimit, ui, st, mounted, cur, lookups,
                       stopThrew, forwarded>>
        /\ UNCHANGED <<eanVars, appVars>>

\* why getUserMedia can reject: permission denied, no camera
StartFailureCauses == {"NotAllowedError", "NotFoundError"}

\* the text the .catch passes on: the same for every error
StartFailureMessage(error) ==
    "Kamera konnte nicht gestartet werden. Bitte Berechtigungen prüfen."

\* the camera is denied or missing: start() rejects; the New component's
\* .catch calls onScanFailure, Html5QrcodeScanner shows the error itself
StartDenied ==
    \E s \in 1..cur, error \in StartFailureCauses :
        /\ sess[s].lib = "starting"
        /\ sess' = IF variant = "New" /\ hasFailureCb
                   THEN [sess EXCEPT ![s].lib = "failed",
                                     ![s].fatal = @ + 1,
                                     ![s].fatalMsg = StartFailureMessage(error),
                                     ![s].lateErr = @ \/ sess[s].cleaned]
                   ELSE [sess EXCEPT ![s].lib = "failed"]
        /\ lastEvt' = NoEvt
        /\ UNCHANGED <<variant, hasFailureCb, sessionLimit, ui, st, mounted, cur, lookups,
                       stopThrew, forwarded>>
        /\ UNCHANGED <<eanVars, appVars>>

\* the effect cleanup without its .catch
CatchesNothing(v) == FALSE
\* html5QrCode.stop().then(...).catch(err => console.error(...));
\* scanner.clear().catch(error => console.error(...))
CatchesStopRejection(v) == v \in {"New", "Ref", "Deps"}

\* the camera teardown finishes: the promise of stop() / clear() settles,
\* fulfilled or rejected (for instance because the device was already released)
StopDone ==
    \E s \in 1..cur, rejected \in BOOLEAN :
        /\ sess[s].lib = "stopping"
        /\ sess' = [sess EXCEPT ![s].lib = "stopped"]
        /\ stopThrew' = (stopThrew \/ (rejected /\ ~CatchesStopRejection(variant)))
        /\ lastEvt' = IF rejected THEN [kind |-> "stopRejected", text |-> <<>>] ELSE NoEvt
        /\ UNCHANGED <<variant, hasFailureCb, sessionLimit, ui, st, mounted, cur, lookups, forwarded>>
        /\ UNCHANGED <<eanVars, appVars>>

\* a response of Open Food Facts arrives (or the fetch fails)
FetchDone ==
    \E i \in 1..Len(lookups), found \in BOOLEAN :
        /\ lookups' = SubSeq(lookups, 1, i - 1) \o SubSeq(lookups, i + 1, Len(lookups))
        /\ st' = IF found
                 THEN AfterFetchEnd(variant, [st EXCEPT !.barcode = lookups[i]])
                 ELSE AfterFetchEnd(variant, st)
        /\ lastEvt' = NoEvt
        /\ UNCHANGED <<variant, hasFailureCb, sessionLimit, ui, mounted, cur, sess, stopThrew,
                       forwarded>>
        /\ UNCHANGED <<eanVars, appVars>>

(***************************************************************************)
(* The inventory of the App (unnamed/part_001): authentication, the        *)
(* snapshot listener on the shared collection artifacts/<appId>/foodItems, *)
(* the food list, and the handlers that write to the collection.           *)
(*                                                                         *)
(* The state variables hold the latest React state; the snapshot effect    *)
(* runs in the step RunEffect once its dependencies have changed.  The     *)
(* Firebase configuration is present and editingId is null (no item is     *)
(* being edited).  Another signed-in client runs the same                  *)
(* handleAddOrUpdateFood against the same collection (OtherClientSubmit).  *)
(***************************************************************************)
MaxDocs == 2          \* documents ever created in the collection
MaxQuantity == 3      \* total quantity ever submitted
MaxPending == 1       \* writes of this client awaiting their acknowledgement

NoUser == "none"
Users == {"u1"}

Names == {"Milch"}
Quantities == {1, 2}

DateEarly == <<"2","0","2","4","-","1","2","-","3","1">>
DateLate  == <<"2","0","2","5","-","0","1","-","0","5">>
\* what <input type="date"> yields: '' or yyyy-MM-dd
ExpiryDates == {<<>>, DateEarly, DateLate}

\* parseInt of a run of ASCII digits
RECURSIVE DigitsToNumber(_, _)
DigitsToNumber(str, n) ==
    IF n = 0 THEN 0 ELSE DigitsToNumber(str, n - 1) * 10 + Number(str[n])

\* days from 1970-01-01 to the civil date y-m-d (proleptic Gregorian)
DaysFromCivil(y, m, d) ==
    LET y1  == IF m <= 2 THEN y - 1 ELSE y
        era == y1 \div 400
        yoe == y1 - era * 400
        mp  == (m + 9) % 12
        doy == (153 * mp + 2) \div 5 + d - 1
        doe == yoe * 365 + yoe \div 4 - yoe \div 100 + doy
    IN  era * 146097 + doe - 719468

\* new Date(expiryDate).getTime(): a date-only string is UTC midnight, a
\* whole number of days; the value is kept in days (the milliseconds, 86400000
\* times as many, exceed the integers of the model checker)
getTime(expiryDate) ==
    DaysFromCivil(DigitsToNumber(SubSeq(expiryDate, 1, 4), 4),
                  DigitsToNumber(SubSeq(expiryDate, 6, 7), 2),
                  DigitsToNumber(SubSeq(expiryDate, 9, 10), 2))

\* the difference with its operands exchanged: latest date first
DateDifferenceReversed(a, b) == getTime(b.expiryDate) - getTime(a.expiryDate)

\* return new Date(a.expiryDate).getTime() - new Date(b.expiryDate).getTime()
DateDifference(a, b) == getTime(a.expiryDate) - getTime(b.expiryDate)

\* a.expiryDate && a.expiryDate !== ''
HasDate(a) == a.expiryDate # <<>>

\* the function passed to items.sort
CompareFoods(a, b) ==
    IF HasDate(a) /\ ~HasDate(b) THEN 0 - 1
    ELSE IF ~HasDate(a) /\ HasDate(b) THEN 1
    ELSE IF ~HasDate(a) /\ ~HasDate(b) THEN 0
    ELSE DateDifference(a, b)

\* Array.prototype.sort is stable: an item goes behind every item that the
\* comparator does not put after it
RECURSIVE InsertFood(_, _)
InsertFood(item, sorted) ==
    IF sorted = <<>> THEN <<item>>
    ELSE IF CompareFoods(Head(sorted), item) > 0 THEN <<item>> \o sorted
    ELSE <<Head(sorted)>> \o InsertFood(item, Tail(sorted))

RECURSIVE SortFoods(_, _)
SortFoods(items, n) ==
    IF n = 0 THEN <<>> ELSE InsertFood(items[n], SortFoods(items, n - 1))

\* querySnapshot.forEach(doc => items.push({id: doc.id, ...doc.data()})); items.sort(...)
SnapshotItems(docs) == SortFoods(docs, Len(docs))

\* name, brands, expiryDate and location all equal
SameItem(f, newFood) ==
    /\ f.name = newFood.name
    /\ f.brands = newFood.brands
    /\ f.expiryDate = newFood.expiryDate
    /\ f.location = newFood.location

\* the form contents of a submit
NewFoods ==
    [name : Names, brands : {""}, location : {"Keller"},
     expiryDate : ExpiryDates, quantity : Quantities]

\* foods.find(...): the first match, or none
ExistingFood(list, newFood) ==
    LET hits == {i \in 1..Len(list) : SameItem(list[i], newFood)}
    IN  IF hits = {} THEN 0 ELSE CHOOSE i \in hits : \A j \in hits : i <= j

\* updateDoc(doc(db, path, id), {quantity}): fails for a missing document
UpdateQuantity(docs, id, quantity) ==
    [i \in 1..Len(docs) |->
        IF docs[i].id = id THEN [docs[i] EXCEPT !.quantity = quantity] ELSE docs[i]]

HasDoc(docs, id) == \E i \in 1..Len(docs) : docs[i].id = id

\* deleteDoc(doc(db, path, id))
RemoveDoc(docs, id) == SelectSeq(docs, LAMBDA x : x.id # id)

\* addDoc(collection, {...newFood}) with a fresh document id
AddDoc(docs, id, newFood) ==
    Append(docs, [id |-> id, name |-> newFood.name, brands |-> newFood.brands,
                  location |-> newFood.location, expiryDate |-> newFood.expiryDate,
                  quantity |-> newFood.quantity])

\* the write of a non-edit submit, computed from the list the handler sees
SubmitWrite(list, docs, id, newFood) ==
    LET i == ExistingFood(list, newFood)
    IN  IF i # 0
        THEN UpdateQuantity(docs, list[i].id, list[i].quantity + newFood.quantity)
        ELSE AddDoc(docs, id, newFood)

\* the list and its buttons are rendered: a user is signed in
SignedInView == isAuthReady /\ userId # NoUser

\* a listener that is never unsubscribed
KeepsListening(wasListening) == wasListening

\* return () => unsubscribe(): the cleanup of the snapshot effect
AfterCleanup(wasListening) == FALSE

\* an error callback that only logs
LoadingKeptOnError(wasLoading) == wasLoading

\* (error) => { console.error(...); setLoading(false); }
LoadingAfterError(wasLoading) == FALSE

\* onAuthStateChanged's callback: setUserId(user.uid or null); setIsAuthReady(true)
AuthStateChanged ==
    /\ authPending
    /\ authPending' = FALSE
    /\ userId' = authUser
    /\ isAuthReady' = TRUE
    /\ UNCHANGED <<foods, loading, authUser, effDeps, listening, snapDue, store, nextId,
                   pendingLogin, pendingWrites, ledger>>
    /\ UNCHANGED <<eanVars, scanVars>>

\* the snapshot effect after a render in which [isAuthReady, db, userId] changed:
\* the cleanup of the previous run, then the body
RunEffect ==
    /\ effDeps # <<isAuthReady, userId>>
    /\ effDeps' = <<isAuthReady, userId>>
    /\ IF ~isAuthReady \/ userId = NoUser
       THEN /\ listening' = AfterCleanup(listening)
            /\ snapDue' = FALSE
            /\ IF isAuthReady /\ userId = NoUser
               THEN foods' = <<>> /\ loading' = FALSE
               ELSE UNCHANGED <<foods, loading>>
       ELSE /\ loading' = TRUE
            /\ listening' = TRUE          \* onSnapshot(q, ...)
            /\ snapDue' = TRUE            \* the initial snapshot
            /\ UNCHANGED foods
    /\ UNCHANGED <<isAuthReady, userId, authUser, authPending, store, nextId,
                   pendingLogin, pendingWrites, ledger>>
    /\ UNCHANGED <<eanVars, scanVars>>

\* the listener's first callback: the documents, sorted, become the list
SnapshotDelivered ==
    /\ listening
    /\ snapDue
    /\ foods' = SnapshotItems(store)
    /\ loading' = FALSE
    /\ snapDue' = FALSE
    /\ UNCHANGED <<isAuthReady, userId, authUser, authPending, effDeps, listening, store,
                   nextId, pendingLogin, pendingWrites, ledger>>
    /\ UNCHANGED <<eanVars, scanVars>>

\* the listener's second callback: Firestore ends a listener that failed
SnapshotError ==
    /\ listening
    /\ listening' = FALSE
    /\ snapDue' = FALSE
    /\ loading' = LoadingAfterError(loading)
    /\ UNCHANGED <<isAuthReady, userId, foods, authUser, authPending, effDeps, store,
                   nextId, pendingLogin, pendingWrites, ledger>>
    /\ UNCHANGED <<eanVars, scanVars>>

\* handleAddOrUpdateFood with editingId null, up to its await: the write is
\* computed from the list of this render; written is false when the write is
\* rejected
HandleAddOrUpdateFood ==
    \E newFood \in NewFoods, written \in BOOLEAN :
        LET i       == ExistingFood(foods, newFood)
            success == written /\ (i # 0 => HasDoc(store, foods[i].id))
        IN  /\ SignedInView
            /\ ~loading                     \* the submit button is disabled while loading
            /\ pendingWrites < MaxPending
            /\ ledger.submitted + newFood.quantity <= MaxQuantity
            /\ i = 0 => nextId <= MaxDocs
            /\ loading' = TRUE
            /\ pendingWrites' = pendingWrites + 1
            /\ store' = IF success THEN SubmitWrite(foods, store, nextId, newFood) ELSE store
            /\ nextId' = IF success /\ i = 0 THEN nextId + 1 ELSE nextId
            /\ ledger' = IF success
                         THEN [ledger EXCEPT !.submitted = @ + newFood.quantity]
                         ELSE ledger
            /\ snapDue' = IF success THEN listening ELSE snapDue
            /\ UNCHANGED <<isAuthReady, userId, foods, authUser, authPending, effDeps,
                           listening, pendingLogin>>
            /\ UNCHANGED <<eanVars, scanVars>>

\* handleDeleteConfirm(food) and handleDelete up to its await
HandleDelete ==
    \E i \in 1..Len(foods), written \in BOOLEAN :
        LET foodToDelete == foods[i]
            success      == written /\ HasDoc(store, foodToDelete.id)
            stored       == CHOOSE j \in 1..Len(store) : store[j].id = foodToDelete.id
        IN  /\ SignedInView
            /\ pendingWrites < MaxPending
            /\ loading' = TRUE
            /\ pendingWrites' = pendingWrites + 1
            /\ store' = IF success THEN RemoveDoc(store, foodToDelete.id) ELSE store
            /\ ledger' = IF success
                         THEN [ledger EXCEPT !.removed = @ + store[stored].quantity]
                         ELSE ledger
            /\ snapDue' = IF success THEN listening ELSE snapDue
            /\ UNCHANGED <<isAuthReady, userId, foods, authUser, authPending, effDeps,
                           listening, nextId, pendingLogin>>
            /\ UNCHANGED <<eanVars, scanVars>>

\* the rest of handleAddOrUpdateFood / handleDelete after the await: the
\* listener has seen the local write before the server acknowledges it
WriteDone ==
    /\ pendingWrites > 0
    /\ listening => ~snapDue
    /\ pendingWrites' = pendingWrites - 1
    /\ loading' = FALSE
    /\ UNCHANGED <<isAuthReady, userId, foods, authUser, authPending, effDeps, listening,
                   snapDue, store, nextId, pendingLogin, ledger>>
    /\ UNCHANGED <<eanVars, scanVars>>

\* handleAddOrUpdateFood run by another signed-in client whose list is up to date
OtherClientSubmit ==
    \E newFood \in NewFoods :
        LET i == ExistingFood(store, newFood)
        IN  /\ ledger.submitted + newFood.quantity <= MaxQuantity
            /\ i = 0 => nextId <= MaxDocs
            /\ store' = SubmitWrite(store, store, nextId, newFood)
            /\ nextId' = IF i = 0 THEN nextId + 1 ELSE nextId
            /\ ledger' = [ledger EXCEPT !.submitted = @ + newFood.quantity]
            /\ snapDue' = listening
            /\ UNCHANGED <<isAuthReady, userId, foods, loading, authUser, authPending,
                           effDeps, listening, pendingLogin, pendingWrites>>
            /\ UNCHANGED <<eanVars, scanVars>>

\* handleLogin up to its await: the login form is shown to a signed-out user
HandleLogin ==
    /\ isAuthReady /\ userId = NoUser
    /\ ~loading                             \* the button is disabled while loading
    /\ pendingLogin = "none"
    /\ pendingLogin' = "signingIn"
    /\ loading' = TRUE
    /\ UNCHANGED <<isAuthReady, userId, foods, authUser, authPending, effDeps, listening,
                   snapDue, store, nextId, pendingWrites, ledger>>
    /\ UNCHANGED <<eanVars, scanVars>>

\* signInWithEmailAndPassword settles: Firebase has a user, or the promise rejects
SignInSettled ==
    \E user \in Users \cup {NoUser} :
        /\ pendingLogin = "signingIn"
        /\ pendingLogin' = "settled"
        /\ IF user # NoUser /\ authUser # user
           THEN authUser' = user /\ authPending' = TRUE
           ELSE UNCHANGED <<authUser, authPending>>
        /\ UNCHANGED <<isAuthReady, userId, foods, loading, effDeps, listening, snapDue,
                       store, nextId, pendingWrites, ledger>>
        /\ UNCHANGED <<eanVars, scanVars>>

\* handleLogin after the await (and its catch): setLoading(false)
LoginDone ==
    /\ pendingLogin = "settled"
    /\ pendingLogin' = "none"
    /\ loading' = FALSE
    /\ UNCHANGED <<isAuthReady, userId, foods, authUser, authPending, effDeps, listening,
                   snapDue, store, nextId, pendingWrites, ledger>>
    /\ UNCHANGED <<eanVars, scanVars>>

\* handleLogout: signOut(authService)
HandleLogout ==
    /\ SignedInView
    /\ authUser # NoUser
    /\ authUser' = NoUser
    /\ authPending' = TRUE
    /\ UNCHANGED <<isAuthReady, userId, foods, loading, effDeps, listening, snapDue,
                   store, nextId, pendingLogin, pendingWrites, ledger>>
    /\ UNCHANGED <<eanVars, scanVars>>

\* the App before onAuthStateChanged has reported: nobody signed in
AppIdle ==
    /\ isAuthReady = FALSE
    /\ userId = NoUser
    /\ foods = <<>>
    /\ loading = TRUE
    /\ authUser = NoUser
    /\ authPending = TRUE
    /\ effDeps = <<FALSE, NoUser>>
    /\ listening = FALSE
    /\ snapDue = FALSE
    /\ store = <<>>
    /\ nextId = 1
    /\ pendingLogin = "none"
    /\ pendingWrites = 0
    /\ ledger = [submitted |-> 0, removed |-> 0]

EanIdle ==
    /\ eanText = <<>>
    /\ eanEdits = 0
    /\ eanCopy = "New"
    /\ eanDone = FALSE
    /\ eanResult = FALSE
    /\ eanPrev = <<>>

Init ==
    /\ AppIdle
    /\ variant \in Variants
    /\ hasFailureCb \in BOOLEAN
    /\ sessionLimit = MaxSessions
    /\ ScanIdle
    /\ EanIdle

Next ==
    \/ OpenClick
    \/ CloseClick
    \/ Render
    \/ DecodeSuccess
    \/ DecodeFailure
    \/ StartGranted
    \/ StartDenied
    \/ StopDone
    \/ FetchDone

Spec == Init /\ [][Next]_vars

\* the same component and caller, followed over fewer effect runs
InitShort ==
    /\ AppIdle
    /\ variant \in Variants
    /\ hasFailureCb \in BOOLEAN
    /\ sessionLimit = MaxSessionsShort
    /\ ScanIdle
    /\ EanIdle

SpecShort == InitShort /\ [][Next]_vars

\* the App's inventory; the scanner stays closed
InitApp ==
    /\ variant = "New"
    /\ hasFailureCb = FALSE
    /\ sessionLimit = MaxSessions
    /\ ScanIdle
    /\ EanIdle
    /\ isAuthReady = FALSE
    /\ userId = NoUser
    /\ foods = <<>>
    /\ loading = TRUE                      \* useState(true)
    /\ authUser \in Users \cup {NoUser}    \* a persisted sign-in, or none
    /\ authPending = TRUE
    /\ effDeps = <<FALSE, NoUser>>
    /\ listening = FALSE
    /\ snapDue = FALSE
    /\ store = <<>>
    /\ nextId = 1
    /\ pendingLogin = "none"
    /\ pendingWrites = 0
    /\ ledger = [submitted |-> 0, removed |-> 0]

NextApp ==
    \/ AuthStateChanged
    \/ RunEffect
    \/ SnapshotDelivered
    \/ SnapshotError
    \/ HandleAddOrUpdateFood
    \/ HandleDelete
    \/ WriteDone
    \/ OtherClientSubmit
    \/ HandleLogin
    \/ SignInSettled
    \/ LoginDone
    \/ HandleLogout

SpecApp == InitApp /\ [][NextApp]_vars

(***************************************************************************)
(* The validator harness: inputs are the two true codes, every string      *)
(* within MaxEdits character replacements of them, and their prefixes and  *)
(* one-character extensions.                                               *)
(***************************************************************************)
MaxEdits == 1

AllChars == {DigitChars[n] : n \in 1..10} \cup OtherChars

InitEan ==
    /\ AppIdle
    /\ variant = "New"
    /\ hasFailureCb = FALSE
    /\ sessionLimit = MaxSessions
    /\ ScanIdle
    /\ eanText \in Samples
    /\ eanCopy \in {"New", "Plain"}
    /\ eanEdits = 0
    /\ eanDone = FALSE
    /\ eanResult = FALSE
    /\ eanPrev = <<>>

\* replace one character of the input
EditChar ==
    /\ eanEdits < MaxEdits
    /\ ~eanDone
    /\ \E i \in 1..Len(eanText), c \in AllChars :
          /\ eanText[i] # c
          /\ eanText' = [eanText EXCEPT ![i] = c]
    /\ eanEdits' = eanEdits + 1
    /\ UNCHANGED <<eanCopy, eanDone, eanResult, eanPrev>>
    /\ UNCHANGED <<scanVars, appVars>>

\* cut the input to a prefix (the empty string included)
Truncate ==
    /\ eanEdits < MaxEdits
    /\ ~eanDone
    /\ \E n \in 0..(Len(eanText) - 1) : eanText' = SubSeq(eanText, 1, n)
    /\ eanEdits' = MaxEdits
    /\ UNCHANGED <<eanCopy, eanDone, eanResult, eanPrev>>
    /\ UNCHANGED <<scanVars, appVars>>

\* append one character
Extend ==
    /\ eanEdits < MaxEdits
    /\ ~eanDone
    /\ \E c \in AllChars : eanText' = Append(eanText, c)
    /\ eanEdits' = MaxEdits
    /\ UNCHANGED <<eanCopy, eanDone, eanResult, eanPrev>>
    /\ UNCHANGED <<scanVars, appVars>>

\* the call isValidEan(decodedText) of the chosen copy
Validate ==
    /\ ~eanDone
    /\ eanDone' = TRUE
    /\ eanResult' = IF eanCopy = "New" THEN isValidEanNew(eanText) ELSE isValidEan(eanText)
    /\ UNCHANGED <<eanText, eanEdits, eanCopy, eanPrev>>
    /\ UNCHANGED <<scanVars, appVars>>

\* the next decoded text, with the last call remembered
NextInput ==
    /\ eanDone
    /\ eanPrev = <<>>
    /\ eanPrev' = <<[text |-> eanText, result |-> eanResult]>>
    /\ eanText' \in SecondInputs
    /\ eanEdits' = MaxEdits
    /\ eanDone' = FALSE
    /\ eanResult' = FALSE
    /\ UNCHANGED eanCopy
    /\ UNCHANGED <<scanVars, appVars>>

NextEan == EditChar \/ Truncate \/ Extend \/ Validate \/ NextInput

SpecEan == InitEan /\ [][NextEan]_vars

(***************************************************************************)
(* The checksum rule of section 4.1, computed from the decimal digits      *)
(***************************************************************************)
AsciiDigits == {"0", "1", "2", "3", "4", "5", "6", "7", "8", "9"}

DigitValue(c) ==
    CASE c = "0" -> 0 [] c = "1" -> 1 [] c = "2" -> 2 [] c = "3" -> 3 [] c = "4" -> 4
      [] c = "5" -> 5 [] c = "6" -> 6 [] c = "7" -> 7 [] c = "8" -> 8 [] c = "9" -> 9

AllDigits(str) == \A i \in 1..Len(str) : str[i] \in AsciiDigits

Weights13 == <<1, 3, 1, 3, 1, 3, 1, 3, 1, 3, 1, 3>>
Weights8  == <<3, 1, 3, 1, 3, 1, 3>>

RECURSIVE WeightedSum(_, _, _)
WeightedSum(str, w, n) ==
    IF n = 0 THEN 0 ELSE WeightedSum(str, w, n - 1) + w[n] * DigitValue(str[n])

ExpectedCheckDigit(str, w) == (10 - (WeightedSum(str, w, Len(w)) % 10)) % 10

LastDigitMatches(str) ==
    DigitValue(str[Len(str)]) =
        ExpectedCheckDigit(str, IF Len(str) = 13 THEN Weights13 ELSE Weights8)

FormatOk(str) == AllDigits(str) /\ Len(str) \in {8, 13}

Kind(str) ==
    IF ~FormatOk(str) THEN "InvalidFormat"
    ELSE IF LastDigitMatches(str) THEN "Valid" ELSE "InvalidChecksum"

(***************************************************************************)
(* C3..C5: the validator                                                   *)
(***************************************************************************)
\* C3: a string of 13 digits is accepted iff its last digit is
\* (10 - (sum mod 10)) mod 10 with the first 12 digits weighted 1,3,1,3,...;
\* a string of 8 digits iff the same holds with the first 7 weighted 3,1,3,1,...
EanChecksumLaw ==
    (eanDone /\ FormatOk(eanText)) => (eanResult <=> LastDigitMatches(eanText))

\* both lengths and both answers: an 8-digit string was rejected, then a
\* 13-digit string is accepted
EanChecksumWitness ==
    /\ eanDone /\ eanResult /\ Len(eanText) = 13 /\ AllDigits(eanText)
    /\ eanPrev # <<>>
    /\ Len(eanPrev[1].text) = 8 /\ AllDigits(eanPrev[1].text) /\ ~eanPrev[1].result

\* C4: a string with a non-digit character, or of a length other than 8 or 13
\* (the empty string included), is never accepted
EanFormatGate ==
    (eanDone /\ ~FormatOk(eanText)) => ~eanResult

\* a 12-digit string was rejected, then a 13-character string with a letter is
EanFormatWitness ==
    /\ eanDone /\ ~eanResult /\ Len(eanText) = 13 /\ ~AllDigits(eanText)
    /\ eanPrev # <<>>
    /\ Len(eanPrev[1].text) = 12 /\ AllDigits(eanPrev[1].text) /\ ~eanPrev[1].result

Sessions == 1..cur

\* C1: within one scan session the caller's success callback is invoked at
\* most once, however many valid frames the decoder delivers
SuccessAtMostOnce ==
    variant # "Legacy" => \A s \in Sessions : sess[s].succ <= 1

\* C2: every barcode the camera path writes to the form or looks up has
\* passed the EAN checksum, in every variant of the integration
OnlyValidBarcodesAccepted ==
    /\ st.barcode # <<>> => Kind(st.barcode) = "Valid"
    /\ \A i \in 1..Len(lookups) : Kind(lookups[i]) = "Valid"

\* C6: a decode callback delivered after the session was stopped never reaches
\* the caller's success callback
NoSuccessAfterStop ==
    variant # "Legacy" => \A s \in Sessions : ~sess[s].lateSucc

\* C7: a session has one terminal outcome: at most one success, never both a
\* success and a fatal error, and no callback after the session was stopped
OneTerminalOutcome ==
    \A s \in Sessions :
        /\ sess[s].succ + sess[s].fatal <= 1
        /\ ~sess[s].lateSucc
        /\ ~sess[s].lateErr

\* C8: the camera is released exactly once on every exit path: never twice,
\* and never still running once the session's cleanup has run
CameraReleasedOnce ==
    \A s \in Sessions :
        /\ sess[s].stops <= 1
        /\ sess[s].cleaned => sess[s].lib # "scanning"

\* C9: stopping is idempotent: a session is stopped at most once, stop() never
\* throws into the cleanup, and a session that is stopping or stopped is not
\* stopped again and does not run again, whatever is requested afterwards
StopIdempotent ==
    /\ [](~stopThrew /\ \A s \in Sessions : sess[s].stops <= 1)
    /\ [][\A s \in Sessions :
            sess[s].lib \in {"stopping", "stopped"} =>
                /\ sess'[s].stops = sess[s].stops
                /\ sess'[s].lib \in {"stopping", "stopped"}]_vars

\* the scanner was closed, a late valid frame made handleScanSuccess ask for
\* the close a second time, and the camera was released once
StopIdempotentWitness ==
    \E s \in Sessions :
        /\ sess[s].cleaned /\ sess[s].lateSucc
        /\ sess[s].lib = "stopped" /\ sess[s].stops = 1
        /\ ~st.open /\ ~ui.open

\* "not found" in any letter case
MarkerUpper == <<"N","O","T"," ","F","O","U","N","D">>

CarriesMarker(error) ==
    \E i \in 0..(Len(error) - Len(MarkerUpper)) :
        \A k \in 1..Len(MarkerUpper) :
            error[i + k] \in {MarkerUpper[k], NotFoundMarker[k]}

\* C10: a per-frame error carrying a "not found" marker, in any letter case,
\* is never passed to the caller's failure callback
NotFoundNeverForwarded ==
    \A error \in forwarded : ~CarriesMarker(error)

(***************************************************************************)
(* C11..C20: the scan session, continued                                   *)
(***************************************************************************)
\* C11: in the scanner component, a decoded candidate that fails validation
\* calls neither the success nor the failure callback (no text that fails
\* validation ever reaches the caller, and dropping a candidate changes nothing
\* the caller can see) and leaves the session delivering frames, so that a
\* later valid candidate is still accepted
InvalidCandidateSilent ==
    /\ [](variant # "Legacy" => (st.barcode # <<>> => Kind(st.barcode) = "Valid"))
    /\ [](variant # "Legacy" => \A i \in 1..Len(lookups) : Kind(lookups[i]) = "Valid")
    /\ [][lastEvt'.kind = "invalidCandidate" =>
            UNCHANGED <<ui, st, mounted, cur, sess, lookups, stopThrew, forwarded>>]_vars

\* an invalid candidate has just been dropped by a session that is still
\* scanning and has accepted nothing yet
InvalidCandidateSilentWitness ==
    /\ variant # "Legacy"
    /\ lastEvt.kind = "invalidCandidate" /\ Kind(lastEvt.text) = "InvalidChecksum"
    /\ mounted /\ sess[cur].lib = "scanning" /\ sess[cur].succ = 0 /\ st.open
\* C12: the caller's error callback runs at most once per session, and only
\* for a fatal condition, never for a per-frame error
ErrorAtMostOnceFatalOnly ==
    \A s \in Sessions : sess[s].errs = 0 /\ sess[s].fatal <= 1

Classifies(msg) ==
    Cardinality({error \in StartFailureCauses : StartFailureMessage(error) = msg}) = 1

\* C14: when the camera cannot be started and the caller has passed an error
\* callback, the callback is invoked once with a message that tells permission
\* denied from device unavailable, and the failed session holds no camera and
\* has no success callback afterwards
StartFailureReported ==
    hasFailureCb =>
        \A s \in Sessions :
            sess[s].lib = "failed" =>
                /\ sess[s].fatal = 1 /\ Classifies(sess[s].fatalMsg)
                /\ sess[s].succ = 0
\* C15: once the success callback has run in a session of the scanner
\* component, the session has
\* stopped the camera itself: it is stopping or stopped as soon as the callback
\* returns, whatever the caller does next
SelfStopAfterAccept ==
    variant # "Legacy" =>
        \A s \in Sessions : sess[s].succ >= 1 => sess[s].lib \in {"stopping", "stopped"}

\* C16: a start while a session is starting or active is rejected and opens no
\* second camera handle: at most one session is starting or scanning
ReentrantStartRejected ==
    Cardinality({s \in Sessions : sess[s].lib \in {"starting", "scanning"}}) <= 1

\* C17: a new scanner is never started on the reader element while an earlier
\* one still holds the camera or has not finished its teardown
OneSessionOnCamera ==
    [][cur' > cur =>
        \A s \in Sessions : sess'[s].lib \notin {"scanning", "stopping"}]_vars

\* C18: Stopped is terminal and is where every stop leads: a session whose
\* cleanup has run never starts scanning afterwards (a pending start that
\* resolves leaves the camera off), and a stopped session never changes
StoppedIsTerminal ==
    [][\A s \in Sessions :
        /\ (sess[s].cleaned /\ sess[s].lib # "scanning") => sess'[s].lib # "scanning"
        /\ sess[s].lib = "stopped" => sess'[s] = sess[s]]_vars

\* C19: the first valid candidate of a session wins: a success callback of a
\* session that has already accepted one leaves the form's barcode as it was
FirstValidWins ==
    [][variant # "Legacy" =>
        \A s \in Sessions :
            (sess[s].succ >= 1 /\ sess'[s].succ > sess[s].succ) =>
                st'.barcode = st.barcode]_vars

\* C20: a rejected stop() / clear() during the cleanup is swallowed: nothing
\* is thrown into the caller, the session ends stopped, and the rejection
\* changes nothing the caller can see
TeardownFailureSwallowed ==
    /\ [](~stopThrew)
    /\ [][lastEvt'.kind = "stopRejected" =>
            /\ \E s \in Sessions :
                    /\ sess[s].lib = "stopping" /\ sess'[s].lib = "stopped"
                    /\ sess'[s].cleaned
            /\ UNCHANGED <<ui, st, mounted, cur, lookups, forwarded>>]_vars

\* the stop() of a closed scanner has just been rejected
TeardownFailureSwallowedWitness ==
    /\ lastEvt.kind = "stopRejected"
    /\ ~stopThrew /\ ~mounted /\ ~ui.open
    /\ sess[cur].cleaned /\ sess[cur].lib = "stopped" /\ sess[cur].stops = 1

\* C21: a session invokes the callbacks of the caller's latest render, and a
\* render that hands the mounted scanner new callbacks neither cleans the
\* running session up nor starts another one
LatestCallbackNoRestart ==
    /\ [](mounted => sess[cur].cb = ui)
    /\ [][(mounted /\ mounted') =>
            /\ cur' = cur
            /\ sess'[cur].cleaned = sess[cur].cleaned
            /\ sess'[cur].stops = sess[cur].stops]_vars

\* C22: the copies of isValidEan agree: whichever copy is called on a string,
\* its result is the result of the copy that multiplies by 1 and of the copy
\* that does not
ValidatorCopiesAgree ==
    eanDone =>
        /\ eanResult = isValidEanNew(eanText)
        /\ eanResult = isValidEan(eanText)

\* the copy without the multiplication by 1 has rejected a string of 8
\* characters and then accepted an EAN-13 code
ValidatorCopiesAgreeWitness ==
    /\ eanDone /\ eanCopy = "Plain" /\ eanResult
    /\ Len(eanText) = 13
    /\ eanPrev # <<>> /\ ~eanPrev[1].result /\ Len(eanPrev[1].text) = 8

\* the three scanner components
ComponentVariants == {"New", "Ref", "Deps"}

\* C23: the scanner components decide alike: an error message that one of
\* them forwards is forwarded by each of them, one that it swallows is
\* swallowed by each of them, and a decoded text that it drops is dropped by
\* each of them
VariantsDecideAlike ==
    variant \in ComponentVariants =>
        /\ \A error \in forwarded :
                \A v \in ComponentVariants : ~SuppressesError(v, error)
        /\ (lastEvt.kind = "errorSwallowed" /\ hasFailureCb) =>
                \A v \in ComponentVariants : SuppressesError(v, lastEvt.text)
        /\ lastEvt.kind = "invalidCandidate" =>
                \A v \in ComponentVariants : ~PassesValidation(v, lastEvt.text)

\* C24: a scan that the App accepts (the scanner was open in the render whose
\* handler runs) closes the scanner, puts the decoded barcode into the form
\* and starts one lookup, for that barcode
AcceptedScanLooksUp ==
    [][(variant # "Legacy") =>
        \A s \in Sessions :
            (sess'[s].succ > sess[s].succ /\ sess[s].cb.open) =>
                /\ ~st'.open
                /\ st'.barcode # <<>> /\ PassesValidation(variant, st'.barcode)
                /\ st'.fetching
                /\ lookups' = Append(lookups, st'.barcode)]_vars

\* C25: at most one lookup started by handleFetchBarcodeData is in flight
OneLookupInFlight ==
    variant # "Legacy" => Len(lookups) <= 1

\* C26: isFetchingBarcode is true exactly while a request is in flight
FetchingFlagExact ==
    variant # "Legacy" => (st.fetching <=> lookups # <<>>)

\* the quantity held by the first n documents
RECURSIVE StoredQuantity(_, _)
StoredQuantity(docs, n) ==
    IF n = 0 THEN 0 ELSE StoredQuantity(docs, n - 1) + docs[n].quantity

\* C27: submits merge into the stored item with the same name, brands, expiry
\* date and location, so no two stored items agree in all four, and as long
\* as nothing has been deleted the stored quantity is the submitted quantity
SubmitsConserveQuantity ==
    ledger.removed = 0 =>
        /\ StoredQuantity(store, Len(store)) = ledger.submitted
        /\ \A i, j \in 1..Len(store) : SameItem(store[i], store[j]) => i = j

\* the calendar order of two yyyy-MM-dd dates, field by field
YearOf(date) ==
    1000 * DigitValue(date[1]) + 100 * DigitValue(date[2])
        + 10 * DigitValue(date[3]) + DigitValue(date[4])
MonthOf(date) == 10 * DigitValue(date[6]) + DigitValue(date[7])
DayOf(date) == 10 * DigitValue(date[9]) + DigitValue(date[10])

NotAfter(a, b) ==
    \/ YearOf(a) < YearOf(b)
    \/ YearOf(a) = YearOf(b) /\ MonthOf(a) < MonthOf(b)
    \/ YearOf(a) = YearOf(b) /\ MonthOf(a) = MonthOf(b) /\ DayOf(a) <= DayOf(b)

\* C28: in the displayed list every item with an expiry date stands before
\* every item without one, and the items with a date stand in
\* non-decreasing date order
DatedFirstAscending ==
    \A i, j \in 1..Len(foods) :
        i < j =>
            /\ foods[j].expiryDate # <<>> => foods[i].expiryDate # <<>>
            /\ (foods[i].expiryDate # <<>> /\ foods[j].expiryDate # <<>>) =>
                    NotAfter(foods[i].expiryDate, foods[j].expiryDate)

\* a snapshot has put the document created second, with the earlier date,
\* before the document created first
DatedFirstAscendingWitness ==
    /\ Len(foods) = 2 /\ ~snapDue /\ listening
    /\ foods[1].id = 2 /\ foods[1].expiryDate = DateEarly
    /\ foods[2].id = 1 /\ foods[2].expiryDate = DateLate

\* the snapshot effect has run for the present authentication state
EffectSettled == effDeps = <<isAuthReady, userId>>

Quiescent ==
    /\ ~authPending
    /\ EffectSettled
    /\ pendingLogin = "none"
    /\ pendingWrites = 0
    /\ listening => ~snapDue

\* C30: once every started operation (login, add/update, delete, snapshot
\* subscription) has completed, loading is false
LoadingReturnsToFalse ==
    Quiescent => ~loading

\* a user is signed in, the subscription has delivered, a delete has been
\* acknowledged, and the list on display is the collection
LoadingReturnsToFalseWitness ==
    /\ Quiescent /\ ~loading
    /\ SignedInView /\ listening
    /\ ledger.removed > 0
    /\ foods # <<>> /\ foods = SnapshotItems(store)

=============================================================================
